---- MODULE Spec2Model ----
(***************************************************************************)
(* Model of inference/src/helpers.py: MaskedCrossAttention (the media      *)
(* location mask, the padding mask, the softmax) and                       *)
(* GatedCrossAttentionBlock (the two tanh-gated residual sublayers).       *)
(*                                                                         *)
(* Tensors are functions over 0-based index ranges.  The learned layers    *)
(* (LayerNorm, Linear, GELU) have unknown weights; they are modelled by    *)
(* fixed integer-valued maps, and exp by a monotone map that underflows    *)
(* to 0, so that every value stays an integer.                             *)
(***************************************************************************)
EXTENDS Integers, Sequences, FiniteSets

\* ------------------------------------------------------------- bounds
MaxB == 2        \* batch sizes 1..MaxB
MaxT == 2        \* text lengths 1..MaxT (x.shape[1] and media_locations.shape[1])
MaxL == 4        \* numbers of audio slots 1..MaxL (media.shape[1])
MaxW == 2        \* max_window_per_audio in 1..MaxW
NumHeads == 2    \* heads

\* ------------------------------------------------------------- program constants
DimHeadSqrt == 8     \* dim_head = 64, scale = dim_head ** -0.5 = 1/8
FinfoMax == 1000     \* stands for torch.finfo(sim.dtype).max
ExpUnderflow == 104  \* exp(d) is 0 in float32 for d <= -104
GateInit == 0        \* torch.tensor([0.0])

Max2(a, b) == IF a >= b THEN a ELSE b

RECURSIVE SumTo(_, _)
\* sum of f[0] .. f[n-1]
SumTo(f, n) == IF n = 0 THEN 0 ELSE f[n - 1] + SumTo(f, n - 1)

RECURSIVE MaxTo(_, _)
\* amax of f[0] .. f[n-1], n >= 1
MaxTo(f, n) == IF n = 1 THEN f[0] ELSE Max2(f[n - 1], MaxTo(f, n - 1))

\* p is an index of a[start:end] on an axis of length n: Python clamps the
\* bounds to the axis
InSlice(p, start, end, n) == 0 <= p /\ p < n /\ start <= p /\ p < end

RECURSIVE NonzeroUpTo(_, _)
\* the indices p < n with v[p] set, ascending
NonzeroUpTo(v, n) ==
    IF n = 0 THEN <<>>
    ELSE IF v[n - 1] THEN Append(NonzeroUpTo(v, n - 1), n - 1)
    ELSE NonzeroUpTo(v, n - 1)

\* media_locations[batch_idx].nonzero().squeeze(-1)
Nonzero(v) == NonzeroUpTo(v, Cardinality(DOMAIN v))

\* ------------------------------------------------------------- MaskedCrossAttention
\* __init__: the fields forward reads
MaskedCrossAttentionInit(kw) ==
    [max_window_per_audio |-> kw.max_window_per_audio,
     scale_inv |-> DimHeadSqrt,
     heads |-> kw.heads,
     only_attend_immediate_media |-> kw.only_attend_immediate_media]

\* a variant of TextRange whose last segment starts after its marker
TextRangeAfterMarker(i, locs, T_txt) ==
    IF i = -1
    THEN IF Len(locs) = 1 THEN <<0, T_txt>> ELSE <<0, locs[i + 2]>>
    ELSE IF i = Len(locs) - 1 THEN <<locs[i + 1] + 1, T_txt>>
    ELSE <<locs[i + 1], locs[i + 2]>>

\* text_start, text_end of iteration i (i in -1 .. len-1) over the marker
\* positions locs (a sequence: Python's locs[k] is locs[k + 1] here)
TextRange(i, locs, T_txt) ==
    IF i = -1
    THEN IF Len(locs) = 1 THEN <<0, T_txt>> ELSE <<0, locs[i + 2]>>
    ELSE IF i = Len(locs) - 1 THEN <<locs[i + 1], T_txt>>
    ELSE <<locs[i + 1], locs[i + 2]>>

\* a variant of WindowRange that starts at the segment's own window whatever the flag
WindowRangeOwnWindow(i, W, immediate) ==
    <<Max2(i, 0) * W, (Max2(i, 0) + 1) * W>>

\* look_at_window_start, look_at_window_end of iteration i
WindowRange(i, W, immediate) ==
    <<IF immediate THEN Max2(i, 0) * W ELSE 0, (Max2(i, 0) + 1) * W>>

\* iteration i = -1 reads locs[0] unless there is exactly one marker
RaisesIndexError(locs) == Len(locs) = 0

\* few_shot_mask[batch_idx] after the loop over i: every iteration sets one
\* block of the all-False mask to True
FewShotRows(locs, T_txt, L, W, immediate) ==
    [p \in 0..(T_txt - 1) |-> [j \in 0..(L - 1) |->
        \E i \in (-1)..(Len(locs) - 1) :
            /\ InSlice(p, TextRange(i, locs, T_txt)[1], TextRange(i, locs, T_txt)[2], T_txt)
            /\ InSlice(j, WindowRange(i, W, immediate)[1], WindowRange(i, W, immediate)[2], L)]]

\* a variant of LocationsOf that reads the first item for every batch_idx
LocationsOfFirstItem(media_locations, batch_idx) == media_locations[0]

\* the item of media_locations that the loop body of batch_idx reads
LocationsOf(media_locations, batch_idx) == media_locations[batch_idx]

\* few_shot_mask after the loop over the batch
FewShotMask(B, T_txt, L, media_locations, W, immediate) ==
    [b \in 0..(B - 1) |->
        FewShotRows(Nonzero(LocationsOf(media_locations, b)), T_txt, L, W, immediate)]

\* the loop over the batch raises at the first item without a marker
FewShotRaises(B, media_locations) ==
    \E b \in 0..(B - 1) : RaisesIndexError(Nonzero(LocationsOf(media_locations, b)))

\* ------------------------------------------------------------- tensor values
\* the text and media embeddings of a call, one feature per position
XTensor(xseed, B, T_txt) == [b \in 0..(B - 1) |-> [p \in 0..(T_txt - 1) |-> xseed + b + p]]
MediaTensor(B, L) == [b \in 0..(B - 1) |-> [j \in 0..(L - 1) |-> 1 + ((b + j) % 2)]]

\* to_q(norm(x)), the k half and the v half of to_kv(media), to_out: one
\* feature per head
ToQ(h, xv) == DimHeadSqrt * (h + 1) * xv
ToK(h, mv) == mv
ToV(h, mv) == mv + h
ToOut(ov) == 2 * ov + 1

\* sim = einsum(q * scale, k)
Sim(module, x, media, B, T_txt, L) ==
    [b \in 0..(B - 1) |-> [h \in 0..(module.heads - 1) |-> [p \in 0..(T_txt - 1) |->
        [j \in 0..(L - 1) |-> (ToQ(h, x[b][p]) \div module.scale_inv) * ToK(h, media[b][j])]]]]

\* a variant of MaskedFill that masks the first head only
MaskedFillFirstHead(s, keep) ==
    [b \in DOMAIN s |-> [h \in DOMAIN s[b] |-> [p \in DOMAIN s[b][h] |->
        [j \in DOMAIN s[b][h][p] |->
            IF keep[b][p][j] \/ h # 0 THEN s[b][h][p][j] ELSE -FinfoMax]]]]

\* sim.masked_fill(~keep, -finfo.max), keep broadcast over the heads (and,
\* for the padding mask, over the text positions)
MaskedFill(s, keep) ==
    [b \in DOMAIN s |-> [h \in DOMAIN s[b] |-> [p \in DOMAIN s[b][h] |->
        [j \in DOMAIN s[b][h][p] |-> IF keep[b][p][j] THEN s[b][h][p][j] ELSE -FinfoMax]]]]

\* media_mask as "b 1 1 (i n)", spread over the text positions
PaddingKeep(media_mask, B, T_txt, L) ==
    [b \in 0..(B - 1) |-> [p \in 0..(T_txt - 1) |-> [j \in 0..(L - 1) |-> media_mask[b][j]]]]

\* exp of a shifted score (<= 0): positive, monotone, 0 once it underflows
ExpQ(d) == IF d <= -ExpUnderflow THEN 0 ELSE ExpUnderflow + d

\* (sim - sim.amax(-1)).softmax(-1) of one row: the numerators; the
\* denominator is their sum
SoftmaxRow(row, L) ==
    LET amax == MaxTo(row, L) IN [j \in 0..(L - 1) |-> ExpQ(row[j] - amax)]

Softmax(s, L) ==
    [b \in DOMAIN s |-> [h \in DOMAIN s[b] |-> [p \in DOMAIN s[b][h] |->
        SoftmaxRow(s[b][h][p], L)]]]

\* to_out(rearrange(einsum(attn, v))) at one text position
OutAt(module, a, media, b, p, L) ==
    ToOut(SumTo([h \in 0..(module.heads - 1) |->
        SumTo([j \in 0..(L - 1) |-> a[b][h][p][j] * ToV(h, media[b][j])], L)
            \div SumTo(a[b][h][p], L)], module.heads))

\* the first statement of forward that raises, "ok" if none does
ForwardStatus(module, c) ==
    IF ~c.use_cached_media /\ ~c.has_locations THEN "AttributeError"
    ELSE IF ~c.use_cached_media /\ c.locations_len # c.T_txt THEN "AssertionError_locations_shape"
    ELSE IF c.extra_dim # 1 THEN "AssertionError_extra_dim"
    ELSE IF c.L % module.max_window_per_audio # 0 THEN "AssertionError_window_multiple"
    ELSE IF module.only_attend_immediate_media # FALSE THEN "AssertionError_immediate_media"
    ELSE IF c.has_locations /\ FewShotRaises(c.B, c.media_locations) THEN "IndexError"
    ELSE IF c.has_locations /\ module.only_attend_immediate_media THEN "NameError"
    ELSE "ok"

\* the tensors of a forward call that completes
ForwardTensors(module, c) ==
    LET x == XTensor(c.xseed, c.B, c.T_txt)
        media == MediaTensor(c.B, c.L)
        sim0 == Sim(module, x, media, c.B, c.T_txt, c.L)
        sim1 == MaskedFill(sim0, PaddingKeep(c.media_mask, c.B, c.T_txt, c.L))
        few == IF c.has_locations
               THEN FewShotMask(c.B, c.T_txt, c.L, c.media_locations,
                                module.max_window_per_audio,
                                module.only_attend_immediate_media)
               ELSE <<>>
        sim2 == IF c.has_locations THEN MaskedFill(sim1, few) ELSE sim1
        a == Softmax(sim2, c.L)
    IN [few_shot_mask |-> few, sim0 |-> sim0, sim |-> sim2, attn |-> a,
        out |-> [b \in 0..(c.B - 1) |-> [p \in 0..(c.T_txt - 1) |->
                    OutAt(module, a, media, b, p, c.L)]]]

\* what a call that raises leaves behind: nothing
NoTensors == [few_shot_mask |-> <<>>, sim0 |-> <<>>, sim |-> <<>>, attn |-> <<>>, out |-> <<>>]

\* a variant of ModuleAfterForward that keeps the slot count of a cached-media call
ModuleAfterForwardCaching(module, c) ==
    IF c.use_cached_media THEN [module EXCEPT !.max_window_per_audio = c.L] ELSE module

\* forward assigns no attribute of self
ModuleAfterForward(module, c) == module

\* ------------------------------------------------------------- GatedCrossAttentionBlock
\* tanh of a gate, in units of itself: 0 at 0, saturated elsewhere
Tanh(g) == IF g = 0 THEN 0 ELSE IF g > 0 THEN 1 ELSE -1

\* self.ff(y): LayerNorm, Linear, GELU, Linear on one feature
FeedForward(y) == 3 * Max2(2 * y - 1, 0) + 1

\* a variant of GateAttn without the gate
GateAttnUngated(attn_out, gate, xv) == attn_out + xv

\* x = attn(x, ...) * attn_gate.tanh() + x
GateAttn(attn_out, gate, xv) == attn_out * Tanh(gate) + xv

\* x = ff(x) * ff_gate.tanh() + x
GateFF(y, gate) == FeedForward(y) * Tanh(gate) + y

BlockOutput(o, x, ag, fg, B, T_txt) ==
    [b \in 0..(B - 1) |-> [p \in 0..(T_txt - 1) |-> GateFF(GateAttn(o[b][p], ag, x[b][p]), fg)]]

\* ------------------------------------------------------------- state
VARIABLES
    ctor,        \* the keyword arguments the modules were constructed with
    module,      \* the MaskedCrossAttention instance's fields
    attn_gate,   \* GatedCrossAttentionBlock.attn_gate
    ff_gate,     \* GatedCrossAttentionBlock.ff_gate
    pc,          \* "idle", or "called": a forward call has returned or raised
    entry,       \* which forward was called last: "attn" or "block"; "none"
                 \* when no call is under way
    earlier,     \* a forward call has returned or raised before the last one
    call,        \* the arguments of the last call
    status,      \* "ok", or the exception the last call raised
    tensors,     \* the last call's few_shot_mask, sim, attn, out
    ret          \* the block's return value

vars == <<ctor, module, attn_gate, ff_gate, pc, entry, earlier, call, status, tensors, ret>>

NoCall ==
    [use_cached_media |-> FALSE, B |-> 0, T_txt |-> 0, L |-> 0, extra_dim |-> 0,
     has_locations |-> FALSE, locations_len |-> 0, media_locations |-> <<>>,
     media_mask |-> <<>>, xseed |-> 0]

Init ==
    /\ ctor \in [max_window_per_audio : 1..MaxW, heads : {NumHeads},
                 only_attend_immediate_media : BOOLEAN]
    /\ module = MaskedCrossAttentionInit(ctor)
    /\ attn_gate = GateInit
    /\ ff_gate = GateInit
    /\ pc = "idle"
    /\ entry = "none"
    /\ earlier = FALSE
    /\ call = NoCall
    /\ status = "none"
    /\ tensors = NoTensors
    /\ ret = <<>>

\* the inputs a run draws its calls from: batched calls on unpadded media
\* ("batch"), or single-item calls with every padding mask ("padded")
BatchSizes(fam) == IF fam = "batch" THEN 1..MaxB ELSE {1}
MediaMasks(fam, B, L) ==
    IF fam = "batch" THEN {[b \in 0..(B - 1) |-> [j \in 0..(L - 1) |-> TRUE]]}
    ELSE [0..(B - 1) -> [0..(L - 1) -> BOOLEAN]]
XSeeds(fam) == IF fam = "batch" THEN {0} ELSE {1}
ExtraDims(fam) == IF fam = "batch" THEN {1} ELSE {1, 2}
LocationLengths(fam, T_txt) == {T_txt, T_txt - 1} \ {0}

\* one forward call, from its arguments to its return or its exception; ent
\* is "attn" for MaskedCrossAttention.forward called directly and "block" for
\* GatedCrossAttentionBlock.forward, which calls it and gates its output
ForwardCall(fam, ent) ==
    /\ pc = "idle"
    /\ \E ucm \in BOOLEAN, B \in BatchSizes(fam), T \in 1..MaxT, L \in 1..MaxL,
          n \in ExtraDims(fam), hasloc \in BOOLEAN :
        \E Tm \in (IF hasloc THEN LocationLengths(fam, T) ELSE {0}) :
          \E ml \in (IF hasloc THEN [0..(B - 1) -> [0..(Tm - 1) -> BOOLEAN]] ELSE {<<>>}),
             mm \in MediaMasks(fam, B, L), xs \in XSeeds(fam) :
            LET c == [use_cached_media |-> ucm, B |-> B, T_txt |-> T, L |-> L,
                      extra_dim |-> n, has_locations |-> hasloc, locations_len |-> Tm,
                      media_locations |-> ml, media_mask |-> mm, xseed |-> xs]
                st == ForwardStatus(module, c)
                t == IF st = "ok" THEN ForwardTensors(module, c) ELSE NoTensors
            IN /\ call' = c
               /\ status' = st
               /\ tensors' = t
               /\ module' = ModuleAfterForward(module, c)
               /\ ret' = IF ent = "block" /\ st = "ok"
                         THEN BlockOutput(t.out, XTensor(xs, B, T), attn_gate, ff_gate, B, T)
                         ELSE <<>>
    /\ pc' = "called"
    /\ entry' = ent
    /\ UNCHANGED <<ctor, attn_gate, ff_gate, earlier>>

MaskedCrossAttentionForward == ForwardCall("batch", "attn")

GatedCrossAttentionBlockForward == ForwardCall("padded", "block")

\* the caller is done with the call: its arguments and tensors go out of scope
Return ==
    /\ pc = "called"
    /\ pc' = "idle"
    /\ entry' = "none"
    /\ call' = NoCall
    /\ status' = "none"
    /\ tensors' = NoTensors
    /\ ret' = <<>>
    /\ earlier' = TRUE
    /\ UNCHANGED <<ctor, module, attn_gate, ff_gate>>

Next == MaskedCrossAttentionForward \/ Return

Spec == Init /\ [][Next]_vars

NextBlock == GatedCrossAttentionBlockForward \/ Return

SpecBlock == Init /\ [][NextBlock]_vars

\* ------------------------------------------------------------- properties
W == module.max_window_per_audio

Items == 0..(call.B - 1)
Positions == 0..(call.T_txt - 1)
Slots == 0..(call.L - 1)

\* the call passed the shape assertions of forward
WellShaped ==
    /\ pc = "called"
    /\ call.has_locations
    /\ call.locations_len = call.T_txt
    /\ call.extra_dim = 1
    /\ call.L % W = 0

\* the forward call completed and built the few-shot mask
MaskBuilt == pc = "called" /\ status = "ok" /\ call.has_locations

\* the number of markers of item b at or before position p, minus one: the
\* index of the segment p lies in, -1 before the first marker
SegmentOf(b, p) ==
    Cardinality({m \in 0..(call.locations_len - 1) : call.media_locations[b][m] /\ m <= p}) - 1

NumMarkers(b) ==
    Cardinality({m \in 0..(call.locations_len - 1) : call.media_locations[b][m]})

\* the audio slots the few-shot mask allows position p of item b
Allowed(b, p) == {j \in Slots : tensors.few_shot_mask[b][p][j]}

\* C1: with only_attend_immediate_media = False, a text position in segment i
\* of an item is allowed exactly the slots below (i + 1) * max_window_per_audio.
C1_CumulativeWindows ==
    MaskBuilt /\ ~module.only_attend_immediate_media =>
        \A b \in Items, p \in Positions :
            SegmentOf(b, p) >= 0 =>
                Allowed(b, p) = {j \in Slots : j < (SegmentOf(b, p) + 1) * W}

C1_Witness ==
    /\ MaskBuilt
    /\ call.B = 2
    /\ \E b \in Items, p \in Positions :
        /\ SegmentOf(b, p) = 1
        /\ Allowed(b, p) = 0..(2 * W - 1)
        /\ 2 * W < call.L

\* C2: with only_attend_immediate_media = True a forward call on well-shaped
\* inputs completes, and segment i is allowed exactly the window of marker i.
C2_ImmediateWindowOnly ==
    WellShaped /\ module.only_attend_immediate_media =>
        /\ status = "ok"
        /\ \A b \in Items, p \in Positions :
            SegmentOf(b, p) >= 0 =>
                Allowed(b, p) = {j \in Slots : /\ SegmentOf(b, p) * W <= j
                                               /\ j < (SegmentOf(b, p) + 1) * W}

\* C3: with only_attend_immediate_media = False, for every marker vector (none
\* included) a position with no marker at or before it is allowed exactly the
\* first window.
C3_BeforeFirstMarker ==
    WellShaped /\ ~module.only_attend_immediate_media =>
        /\ status = "ok"
        /\ \A b \in Items, p \in Positions :
            SegmentOf(b, p) = -1 => Allowed(b, p) = {j \in Slots : j < W}

\* C6: every call that satisfies the three shape assertions completes.
C6_OnlyShapeAssertionsFail == WellShaped => status = "ok"

\* C10: with only_attend_immediate_media = False and a marker in every item,
\* the call raises nothing, each position is allowed a non-empty prefix of the
\* L slots, the prefix never shrinks along the text, and a segment beyond the
\* last window is allowed all L slots.
C10_PrefixMonotone ==
    (/\ WellShaped
     /\ ~module.only_attend_immediate_media
     /\ \A b \in Items : NumMarkers(b) >= 1) =>
        /\ status = "ok"
        /\ \A b \in Items, p \in Positions :
            /\ \E m \in 1..call.L : Allowed(b, p) = 0..(m - 1)
            /\ \A q \in Positions : q <= p => Allowed(b, q) \subseteq Allowed(b, p)
            /\ (SegmentOf(b, p) + 1) * W >= call.L => Allowed(b, p) = Slots

C10_Witness ==
    /\ MaskBuilt
    /\ \E b \in Items, p \in Positions :
        /\ (SegmentOf(b, p) + 1) * W > call.L
        /\ Allowed(b, p) = Slots
        /\ \E q \in Positions : q < p /\ SegmentOf(b, q) < SegmentOf(b, p)

\* the few-shot mask of one item, as the set of its allowed (position, slot) pairs
AllowedPairs(rows) ==
    {pj \in (DOMAIN rows) \X (0..(MaxL - 1)) :
        pj[2] \in DOMAIN rows[pj[1]] /\ rows[pj[1]][pj[2]]}

\* the few-shot mask of a call of this module whose batch is item b of this
\* call alone, with L2 audio slots
SoloMask(b, L2) ==
    FewShotMask(1, call.T_txt, L2, [b2 \in {0} |-> call.media_locations[b]], W,
                module.only_attend_immediate_media)[0]

C8_Stateless ==
    /\ module = MaskedCrossAttentionInit(ctor)
    /\ MaskBuilt =>
        tensors.few_shot_mask =
            FewShotMask(call.B, call.T_txt, call.L, call.media_locations,
                        ctor.max_window_per_audio, ctor.only_attend_immediate_media)

C8_Witness ==
    /\ MaskBuilt
    /\ earlier
    /\ call.use_cached_media
    /\ call.L # ctor.max_window_per_audio

\* the score of (p, j) may be kept: slot j is not padded and the few-shot
\* mask, when there is one, allows (p, j)
Kept(b, p, j) ==
    /\ call.media_mask[b][j]
    /\ call.has_locations => tensors.few_shot_mask[b][p][j]

Heads == 0..(module.heads - 1)

\* C4: with media_locations given, a score keeps its computed value if the
\* padding mask allows the slot and the few-shot mask allows the pair, and is
\* the minimum value otherwise, in every head alike.
C4_ScoreKeptIffBothMasks ==
    MaskBuilt =>
        \A b \in Items, h \in Heads, p \in Positions, j \in Slots :
            /\ tensors.sim[b][h][p][j] =
                IF call.media_mask[b][j] /\ tensors.few_shot_mask[b][p][j]
                THEN tensors.sim0[b][h][p][j] ELSE -FinfoMax
            /\ tensors.sim0[b][h][p][j] # -FinfoMax

C4_Witness ==
    /\ MaskBuilt
    /\ \E b \in Items, p \in Positions, j1, j2, j3 \in Slots :
        /\ call.media_mask[b][j1] /\ tensors.few_shot_mask[b][p][j1]
        /\ ~call.media_mask[b][j2] /\ tensors.few_shot_mask[b][p][j2]
        /\ call.media_mask[b][j3] /\ ~tensors.few_shot_mask[b][p][j3]
        /\ \A h \in Heads : /\ tensors.sim[b][h][p][j1] = tensors.sim0[b][h][p][j1]
                            /\ tensors.sim[b][h][p][j2] = -FinfoMax
                            /\ tensors.sim[b][h][p][j3] = -FinfoMax

\* C5: in every call that completes, a slot that is padded or outside the
\* windows of a position gets attention weight 0 at that position.
C5_DisallowedGetNoWeight ==
    pc = "called" /\ status = "ok" =>
        \A b \in Items, h \in Heads, p \in Positions, j \in Slots :
            ~Kept(b, p, j) => tensors.attn[b][h][p][j] = 0

\* C9: with both gates at their initial value, a block forward call that
\* completes returns its input x.
C9_ZeroGatesReturnInput ==
    pc = "called" /\ entry = "block" /\ status = "ok" =>
        /\ attn_gate = 0
        /\ ff_gate = 0
        /\ ret = XTensor(call.xseed, call.B, call.T_txt)

C9_Witness ==
    /\ pc = "called" /\ entry = "block" /\ status = "ok"
    /\ call.has_locations
    /\ \E p \in Positions :
        /\ ret[0][p] = XTensor(call.xseed, call.B, call.T_txt)[0][p]
        /\ ret[0][p] # 0
        /\ tensors.out[0][p] # 0
        /\ FeedForward(ret[0][p]) # 0

====
